---------------------------- MODULE ClientProofs ----------------------------
(***************************************************************************)
(* Theorems about the programs of Clients, for any constants, from the     *)
(* invariants of each program.                                             *)
(***************************************************************************)
EXTENDS Clients, MarketPageProofs, MessagePageProofs, SessionPageProofs

LEMMA ClientSteps ==
    ASSUME [ClientNext]_clientVars
    PROVE  /\ program' = program
           /\ program = "feed" => [F!Next]_F!feedVars
           /\ program = "inbox" => [N!Next]_N!inboxVars
           /\ program = "trade" => [T!Next]_T!tradeVars
           /\ program = "shell" => [A!Next]_A!shellVars
           /\ program = "deposit" => [D!Next]_D!depositVars
           /\ program = "desk" => [S!Next]_S!deskVars
           /\ program = "console" => [C!Next]_C!consoleVars
           /\ program = "spot" => [O!Next]_O!spotVars
           /\ program = "consent" => [K!Next]_K!consentVars
           /\ program = "quotes" => [Q!Next]_Q!quoteVars
           /\ program = "signin" => [L!Next]_L!signInVars
           /\ program = "welcome" => [W!Next]_W!welcomeVars
           /\ program = "contact" => [M!Next]_M!contactVars
           /\ program = "staff forms" => [E!Next]_E!staffVars
           /\ program = "companion" => [B!Next]_B!companionVars
           /\ program = "toasts" => [P!Next]_P!toastVars
           /\ program = "digits" => [V!Next]_V!proofVars
           /\ program = "proof" => [Next]_vars
<1>1. CASE UNCHANGED clientVars
  BY <1>1, Zenon DEF clientVars, slots, F!feedVars, N!inboxVars, T!tradeVars, A!shellVars, D!depositVars, D!edgeVars, D!sheetVars, S!deskVars,
     O!spotVars, M!contactVars, E!staffVars, C!consoleVars, K!consentVars, Q!quoteVars, L!signInVars,
     W!welcomeVars, B!companionVars, P!toastVars, V!proofVars, vars
<1>2. CASE ClientNext
  BY <1>2 DEF ClientNext
<1> QED BY <1>1, <1>2

-----------------------------------------------------------------------------
(* Theorems *)

\* Whichever of ticks, lists and events brings a result, the trade page tells it once; and
\* every toast is read out once (trade.js showNotice, experience-foundation.js announce).
THEOREM ResultsAreToldOnce == ClientSpec => []ResultsToldOnce
<1> DEFINE Inv == /\ program = "trade" => TradeInv
                  /\ program = "toasts" => ToastsInv
<1>1. ClientInit => Inv
  BY TradeInit, ToastsInit DEF ClientInit
<1>2. Inv /\ [ClientNext]_clientVars => Inv'
  BY ClientSteps, TradeNext, ToastsNext
<1>3. Inv => ResultsToldOnce
  BY TradeTells DEF ResultsToldOnce, ToastsInv
<1> QED BY <1>1, <1>2, <1>3, PTL DEF ClientSpec

\* Nothing is asked too often: the exchange while Redis answers, the endpoints that let
\* people in, and the person to take a break (quote-cache.mjs, form-guard.js limiter,
\* companion.js breakDue).
THEOREM NothingAskedTooOften == ClientSpec => []AsksSparingly
<1> DEFINE Inv == /\ program = "quotes" => QuotesInv
                  /\ program = "signin" => LimitsInv
                  /\ program = "companion" => CompanionInv
<1>1. ClientInit => Inv
  BY QuotesInit, LimitsInit, CompanionInit DEF ClientInit
<1>2. Inv /\ [ClientNext]_clientVars => Inv'
  BY ClientSteps, QuotesNext, LimitsNext, CompanionNext
<1>3. Inv => AsksSparingly
  BY QuotesSparing DEF AsksSparingly, LimitsInv, CompanionInv
<1> QED BY <1>1, <1>2, <1>3, PTL DEF ClientSpec

\* The person in front of the page decides: which cards are voided or restricted, what
\* the companion closes, and how long a toast stays (admin-operations.js confirm and
\* submit, companion.js offer and close, toasts.js showToast).
THEOREM UserIsHeeded == ClientSpec => []HeedsItsUser
<1> DEFINE Inv == /\ program = "console" => DecisionsInv
                  /\ program = "companion" => CompanionInv
                  /\ program = "toasts" => ToastsInv
<1>1. ClientInit => Inv
  BY DecisionsInit, CompanionInit, ToastsInit DEF ClientInit
<1>2. Inv /\ [ClientNext]_clientVars => Inv'
  BY ClientSteps, DecisionsNext, CompanionNext, ToastsNext
<1>3. Inv => HeedsItsUser
  BY DEF HeedsItsUser, DecisionsInv, CompanionInv, ToastsInv
<1> QED BY <1>1, <1>2, <1>3, PTL DEF ClientSpec

\* What a page shows is of the one it names: the balance of the active account, and none
\* older than shown before (account-switcher.js, dashboard.js); but for its funding panel,
\* the cards of the one on duty (admin-operations.js); the settings of the customer (onboarding.js, tailoring.js).
THEOREM OwnersAreShown == ClientSpec => []ShowsItsOwner
<1> DEFINE Inv == /\ program = "shell" => ShellInv
                  /\ program = "console" => ConsoleInv
                  /\ program = "welcome" => WelcomeInv
<1>1. ClientInit => Inv
  BY ShellInit, ConsoleInit, WelcomeInit DEF ClientInit
<1>2. Inv /\ [ClientNext]_clientVars => Inv'
  BY ClientSteps, ShellNext, ConsoleNext, WelcomeNext
<1>3. Inv => ShowsItsOwner
  BY DEF ShowsItsOwner, ShellInv, ConsoleInv, WelcomeInv
<1> QED BY <1>1, <1>2, <1>3, PTL DEF ClientSpec

\* What stays on the device is what was asked for, whatever pages are open: settings go
\* by the last choice but for a page that goes by the former one, a change of mind changes
\* none of the page it is made on, and a session is of the one who asked for it
\* (consent.js, preferences.js, signin.js, staff-signin.js).
THEOREM DeviceKeepsWhatWasAsked == ClientSpec => StoredAsAsked
<1> DEFINE Inv == /\ program = "consent" => ConsentInv
                  /\ program = "signin" => LimitsInv /\ L!WhoTries
           Kept == /\ program = "consent" => K!StoredByConsent' /\ K!KeepsSettings
                   /\ program = "signin" => L!NoSessionLeft /\ L!SignsInWhoAsked
<1>1. ClientInit => Inv
  BY ConsentInit, LimitsInit, WhoInit DEF ClientInit
<1>2. Inv /\ [ClientNext]_clientVars => Inv' /\ [Kept]_clientVars
  <2> SUFFICES ASSUME Inv, [ClientNext]_clientVars PROVE Inv' /\ [Kept]_clientVars
    OBVIOUS
  <2>1. CASE program = "consent"
    <3>1. ConsentInv' /\ K!KeepsSettings
      BY <2>1, ClientSteps, ConsentNext
    <3> QED BY <2>1, <3>1, ClientSteps DEF ConsentInv
  <2>2. CASE program = "signin"
    <3>1. LimitsInv' /\ L!WhoTries' /\ L!NoSessionLeft /\ L!SignsInWhoAsked
      BY <2>2, ClientSteps, LimitsNext, WhoNext DEF LimitsInv
    <3> QED BY <2>2, <3>1, ClientSteps
  <2> QED BY <2>1, <2>2, ClientSteps
<1> QED BY <1>1, <1>2, PTL DEF ClientSpec, StoredAsAsked

\* What is tried again because its answer was lost is done once, in each program that
\* tries again: a purchase (trade.js idempotencyKey), an order of the spot page
\* (clientOrderId), a prompt on a phone (funding-flow.mjs), a reply or a request to
\* support (support-ui.js, contact.js), a change by staff (admin-operations.js).
THEOREM WhatIsRetriedIsDoneOnce == ClientSpec => RetriesDoItOnce
<1> DEFINE Inv == /\ program = "trade" => TradeInv
                  /\ program = "spot" => SpotInv
                  /\ program = "deposit" => DepositInv
                  /\ program = "desk" => DeskInv
                  /\ program = "contact" => ContactInv
                  /\ program = "staff forms" => FormsInv
           Once == /\ program = "spot" => O!RetryOrdersOnce
                   /\ program = "deposit" => D!PromptedOnce
                   /\ program = "desk" => S!RetryPostsOnce
                   /\ program = "contact" => M!RetrySendsOnce
                   /\ program = "staff forms" => E!DoneOnce
<1>1. ClientInit => Inv
  BY TradeInit, SpotInit, DepositInit, DeskInit, ContactInit, FormsInit DEF ClientInit
<1>2. Inv /\ [ClientNext]_clientVars => Inv'
  BY ClientSteps, TradeNext, SpotNext, DepositNext, DeskNext, ContactNext, FormsNext
<1>3. Inv => Once
  BY DepositPrompts DEF SpotInv, DeskInv, ContactInv, FormsInv
<1>4. Inv /\ [ClientNext]_clientVars => (program = "trade" => T!BuysOnce) /\ program' = program
  BY ClientSteps, TradeBuys
<1> DEFINE Bought == program = "trade" => T!BuysOnce
           Retried == /\ program = "trade" => T!BuysOnce
                      /\ program = "spot" => O!RetryOrdersOnce'
                      /\ program = "deposit" => D!PromptedOnce'
                      /\ program = "desk" => S!RetryPostsOnce'
                      /\ program = "contact" => M!RetrySendsOnce'
                      /\ program = "staff forms" => E!DoneOnce'
<1>5. Once' /\ Bought /\ program' = program => Retried
  OBVIOUS
<1>6. Inv /\ [ClientNext]_clientVars => Inv' /\ [Retried]_clientVars
  <2> HIDE DEF Inv, Once, Bought, Retried
  <2>1. Inv' => Once'
    BY <1>3, PTL
  <2> QED BY <1>2, <1>4, <1>5, <2>1 DEF Bought
<1> QED BY <1>1, <1>6, PTL DEF ClientSpec, RetriesDoItOnce

\* A reply being written goes only when it was saved, when its author opens another
\* conversation, with the session, or when the conversation was given to someone else
\* (support-ui.js mutate, showTicket, clear and the not_found of loadTicket).
THEOREM RepliesAreKept == ClientSpec => DraftsAreKept
<1> DEFINE Inv == program = "desk" => DeskInv /\ S!RefusedWhenAway
           Kept == program = "desk" => S!KeepsDraft
<1>1. ClientInit => Inv
  BY DeskInit, FittingInit DEF ClientInit
<1>2. Inv /\ [ClientNext]_clientVars => Inv' /\ [Kept]_clientVars
  BY ClientSteps, DeskNext, FittingNext, DeskDrafts
<1> QED BY <1>1, <1>2, PTL DEF ClientSpec, DraftsAreKept

\* What a page lists has no hole, goes only forward and is its reader's: the ticks of a
\* chart, whatever was lost, repeated or late (trade.js createTickFeed); the sheet's
\* notifications, read by pages while new ones arrive (notifications.js load); and the
\* requests of the contact page, whoever signs in meanwhile (contact.js loadHistory).
THEOREM ListsLeaveNothingOut == ClientSpec => ListsAreRight
<1> DEFINE Inv == /\ program = "feed" => FeedInv
                  /\ program = "inbox" => InboxInv
                  /\ program = "contact" => M!LoadsAreVersions
           Whole == /\ program = "feed" => F!NoGaps
                    /\ program = "inbox" => N!InboxNoGaps
           Moved == /\ program = "feed" => F!OnlyForward
                    /\ program = "contact" => M!ListsOwnRequests
           Right == /\ program = "feed" => F!NoGaps' /\ F!OnlyForward
                    /\ program = "inbox" => N!InboxNoGaps'
                    /\ program = "contact" => M!ListsOwnRequests
<1>1. ClientInit => Inv
  BY FeedInit, InboxInit, ListsInit DEF ClientInit
<1>2. Inv /\ [ClientNext]_clientVars => Inv' /\ Moved
  BY ClientSteps, FeedNext, InboxNext, ListsNext
<1>3. Inv => Whole
  BY FeedNoGaps DEF InboxInv
<1>4. [ClientNext]_clientVars => program' = program
  BY ClientSteps
<1>5. Whole' /\ Moved /\ program' = program => Right
  OBVIOUS
<1>6. Inv /\ [ClientNext]_clientVars => Inv' /\ [Right]_clientVars
  <2> HIDE DEF Inv, Whole, Moved, Right
  <2>1. Inv' => Whole'
    BY <1>3, PTL
  <2> QED BY <1>2, <1>4, <1>5, <2>1
<1> QED BY <1>1, <1>6, PTL DEF ClientSpec, ListsAreRight

\* What the engine publishes in versions 1 and 2 is never called a mismatch, a broken
\* commitment or a tick of no epoch, no tick that was there all the time is called
\* missing, and a verified tick is the one of the committed seed (fairness-page.js
\* submit, tick-verifier.js verifyTicks, engine_price_units_v2).
THEOREM TicksAreJudgedRight ==
    ClientSpec => [](program = "digits" => /\ V!HonestTicksVerify /\ V!RangeIsWhole
                                           /\ V!VerifiedFollows)
<1> DEFINE Inv == program = "digits" => DigitsInv
<1>1. ClientInit => Inv
  BY DigitsInit DEF ClientInit
<1>2. Inv /\ [ClientNext]_clientVars => Inv'
  BY ClientSteps, DigitsNext
<1>3. Inv => (program = "digits" => /\ V!HonestTicksVerify /\ V!RangeIsWhole /\ V!VerifiedFollows)
  BY DEF DigitsInv
<1> QED BY <1>1, <1>2, <1>3, PTL DEF ClientSpec

\* The generator of version 3 never moves a price beyond the limit of the database; what it
\* made and the database exported is never called invalid, and is fully verified with all
\* its evidence (generator.mjs, verify.mjs verifyPackage); and neither is a tick of
\* versions 1 and 2 on the fairness page (tick-verifier.js verifyTicks).
THEOREM GeneratedIsNeverWrong == ClientSpec => []GeneratedVerifies
<1> DEFINE Inv == /\ program = "proof" => Made
                  /\ program = "digits" => DigitsInv
<1>1. ClientInit => Inv
  BY MadeFirst, DigitsInit DEF ClientInit
<1>2. Inv /\ [ClientNext]_clientVars => Inv'
  BY ClientSteps, MadeKept, DigitsNext
<1>3. Inv => GeneratedVerifies
  BY MadeVerifies DEF GeneratedVerifies, DigitsInv
<1> QED BY <1>1, <1>2, <1>3, PTL DEF ClientSpec
=============================================================================
