------------------------------- MODULE Clients -------------------------------
(***************************************************************************)
(* The programs around the database: the pages of the browser with the     *)
(* functions they call, the quote cache and the verifier.  Each runs alone *)
(* against its model of the server, so a behaviour is one program's from   *)
(* beginning to end: `program` never changes, and v1 .. v18 stand for the  *)
(* variables of its module, in their order (Slots).  The pages are those   *)
(* of MarketPages, MessagePages and SessionPages; the verifier keeps the   *)
(* variables of ProofPackage.                                              *)
(***************************************************************************)
EXTENDS ProofPackage, MarketPages, MessagePages, SessionPages

VARIABLE program

clientVars == <<program, slots, vars>>

-----------------------------------------------------------------------------
(* The variables a program leaves unused *)

Rest17 == <<v18>>
Rest16 == <<v17, Rest17>>
Rest14 == <<v15, v16, Rest16>>
Rest12 == <<v13, v14, Rest14>>
Rest11 == <<v12, Rest12>>
Rest10 == <<v11, Rest11>>
Rest8 == <<v9, v10, Rest10>>
Rest6 == <<v7, v8, Rest8>>

Idle17 == v18 = 0
Idle16 == v17 = 0 /\ Idle17
Idle14 == v15 = 0 /\ v16 = 0 /\ Idle16
Idle12 == v13 = 0 /\ v14 = 0 /\ Idle14
Idle11 == v12 = 0 /\ Idle12
Idle10 == v11 = 0 /\ Idle11
Idle8 == v9 = 0 /\ v10 = 0 /\ Idle10
Idle6 == v7 = 0 /\ v8 = 0 /\ Idle8
Idle0 == v1 = 0 /\ v2 = 0 /\ v3 = 0 /\ v4 = 0 /\ v5 = 0 /\ v6 = 0 /\ Idle6
NoProof == hist = 0 /\ series = 0 /\ opts = 0 /\ pkg = 0 /\ verdict = 0 /\ alterations = 0

ClientInit ==
    \/ program = "feed" /\ F!Init /\ Idle12 /\ NoProof
    \/ program = "trade" /\ T!Init /\ Idle17 /\ NoProof
    \/ program = "shell" /\ A!Init /\ Idle11 /\ NoProof
    \/ program = "inbox" /\ N!Init /\ Idle10 /\ NoProof
    \/ program = "deposit" /\ D!Init /\ Idle17 /\ NoProof
    \/ program = "desk" /\ S!Init /\ Idle14 /\ NoProof
    \/ program = "console" /\ C!Init /\ Idle17 /\ NoProof
    \/ program = "spot" /\ O!Init /\ NoProof
    \/ program = "consent" /\ K!Init /\ Idle6 /\ NoProof
    \/ program = "quotes" /\ Q!Init /\ Idle10 /\ NoProof
    \/ program = "signin" /\ L!Init /\ Idle8 /\ NoProof
    \/ program = "welcome" /\ W!Init /\ Idle14 /\ NoProof
    \/ program = "contact" /\ M!Init /\ Idle14 /\ NoProof
    \/ program = "staff forms" /\ E!Init /\ NoProof
    \/ program = "companion" /\ B!Init /\ Idle10 /\ NoProof
    \/ program = "toasts" /\ P!Init /\ Idle10 /\ NoProof
    \/ program = "digits" /\ V!Init /\ Idle14 /\ NoProof
    \/ program = "proof" /\ Init /\ Idle0

ClientNext ==
    \/ program = "feed" /\ F!Next /\ UNCHANGED <<program, vars, Rest12>>
    \/ program = "trade" /\ T!Next /\ UNCHANGED <<program, vars, Rest17>>
    \/ program = "shell" /\ A!Next /\ UNCHANGED <<program, vars, Rest11>>
    \/ program = "inbox" /\ N!Next /\ UNCHANGED <<program, vars, Rest10>>
    \/ program = "deposit" /\ D!Next /\ UNCHANGED <<program, vars, Rest17>>
    \/ program = "desk" /\ S!Next /\ UNCHANGED <<program, vars, Rest14>>
    \/ program = "console" /\ C!Next /\ UNCHANGED <<program, vars, Rest17>>
    \/ program = "spot" /\ O!Next /\ UNCHANGED <<program, vars>>
    \/ program = "consent" /\ K!Next /\ UNCHANGED <<program, vars, Rest6>>
    \/ program = "quotes" /\ Q!Next /\ UNCHANGED <<program, vars, Rest10>>
    \/ program = "signin" /\ L!Next /\ UNCHANGED <<program, vars, Rest8>>
    \/ program = "welcome" /\ W!Next /\ UNCHANGED <<program, vars, Rest14>>
    \/ program = "contact" /\ M!Next /\ UNCHANGED <<program, vars, Rest14>>
    \/ program = "staff forms" /\ E!Next /\ UNCHANGED <<program, vars>>
    \/ program = "companion" /\ B!Next /\ UNCHANGED <<program, vars, Rest10>>
    \/ program = "toasts" /\ P!Next /\ UNCHANGED <<program, vars, Rest10>>
    \/ program = "digits" /\ V!Next /\ UNCHANGED <<program, vars, Rest14>>
    \/ program = "proof" /\ Next /\ UNCHANGED <<program, slots>>

ClientSpec == ClientInit /\ [][ClientNext]_clientVars

\* The feed's timers and queue run, and its calls are answered or fail.
FeedRuns(step) == program = "feed" /\ step /\ UNCHANGED <<program, vars, Rest12>>
Fairness ==
    /\ WF_clientVars(FeedRuns(F!serial)) /\ WF_clientVars(FeedRuns(F!loadLatest))
    /\ WF_clientVars(FeedRuns(F!pageFrom)) /\ WF_clientVars(FeedRuns(F!Poll))
    /\ WF_clientVars(FeedRuns(F!StaleGuardFires))
FairSpec == ClientSpec /\ Fairness

-----------------------------------------------------------------------------
(* The properties of the programs, each stated in its module *)

\* Every program's variables have their types.
ClientsTypeOK ==
    /\ program = "feed" => F!TypeOK
    /\ program = "trade" => T!TypeOK
    /\ program = "shell" => A!TypeOK
    /\ program = "inbox" => N!TypeOK
    /\ program = "deposit" => D!TypeOK
    /\ program = "desk" => S!TypeOK
    /\ program = "console" => C!TypeOK
    /\ program = "spot" => O!TypeOK
    /\ program = "consent" => K!TypeOK
    /\ program = "quotes" => Q!TypeOK
    /\ program = "signin" => L!TypeOK
    /\ program = "welcome" => W!TypeOK
    /\ program = "contact" => M!TypeOK
    /\ program = "staff forms" => E!TypeOK
    /\ program = "companion" => B!TypeOK
    /\ program = "toasts" => P!TypeOK
    /\ program = "digits" => V!TypeOK
    /\ program = "proof" => TypeOK

\* What a page lists has no hole, goes only forward and is its reader's: the ticks a
\* chart holds, read page by page and filled by broadcasts (createTickFeed), whose last
\* digit never goes back to an older one; the notifications of the sheet; and the support
\* requests of the contact page, whoever signs in meanwhile (contact.js).
ListsAreRight ==
    [][ /\ program = "feed" => F!NoGaps' /\ F!OnlyForward
        /\ program = "inbox" => N!InboxNoGaps'
        /\ program = "contact" => M!ListsOwnRequests ]_clientVars

\* A feed left open ends with the newest tick, after lost broadcasts, dropped
\* channels and failed calls.
FeedCatchesUp == <>[](program = "feed" => F!UpToDate)

\* What is tried again because its answer was lost is done once: a purchase of the
\* trade page, an order of the spot page, a prompt on a customer's phone, a reply or a
\* request to support, an announcement, a message or a change of role by staff.
RetriesDoItOnce ==
    [][ /\ program = "trade" => T!BuysOnce
        /\ program = "spot" => O!RetryOrdersOnce'
        /\ program = "deposit" => D!PromptedOnce'
        /\ program = "desk" => S!RetryPostsOnce'
        /\ program = "contact" => M!RetrySendsOnce'
        /\ program = "staff forms" => E!DoneOnce' ]_clientVars

\* The trade page tells a result at most once, whichever of ticks, lists and events
\* brings it; and every toast is read out exactly once.
ResultsToldOnce ==
    /\ program = "trade" => T!ToldOnce
    /\ program = "toasts" => P!ReadOutOnce

\* A page shows and follows what is of the one it names: whatever answers come late, no
\* account's figures appear under another (account switch, dashboard), no cards of one
\* member of staff under another (staff console, but for its funding panel), and no
\* settings derived from another customer's answers (tailoring.js).
ShowsItsOwner ==
    /\ program = "shell" => A!BalanceIsCurrent
    /\ program = "console" => C!ShowsItsStaff
    /\ program = "welcome" => W!FollowsOwnAnswers

\* The person in front of the page decides: the staff console voids and restricts what
\* was confirmed, although other cards may be opened while the confirmation is verified;
\* the companion leaves closed what they closed, and says a limit unless they opened
\* something else; a toast they read stays.
HeedsItsUser ==
    /\ program = "console" => C!ActsAsConfirmed
    /\ program = "companion" => B!LimitIsSaid /\ B!ClosedStaysClosed
    /\ program = "toasts" => P!FocusHoldsOpen

\* A reply to support is given up only when it was saved, its author leaves it or the
\* conversation was given to someone else.
DraftsAreKept == [][program = "desk" => S!KeepsDraft]_clientVars

\* What stays on the device is what was asked for: preferences only while the last choice
\* allows them, unless another page still goes by the former one, and a change of mind
\* changes no setting of its page; the session of the one who signs in; and none of an
\* account without a role that tried the staff console.
StoredAsAsked ==
    [][ /\ program = "consent" => K!StoredByConsent' /\ K!KeepsSettings
        /\ program = "signin" => L!NoSessionLeft /\ L!SignsInWhoAsked ]_clientVars

\* Nothing is asked too often: while Redis answers, the exchange gives one fresh snapshot
\* at a time, and no two requests under running leases ask it; the sign-in, registration and e-mail
\* endpoints only so many times before a pause; the person, to take a break, only after
\* so many contracts or minutes.
AsksSparingly ==
    /\ program = "quotes" => Q!OneFreshSnapshot /\ Q!LeaseIsExclusive
    /\ program = "signin" => L!AttemptsLimited
    /\ program = "companion" => B!BreaksAreApart

\* What the engine publishes is never called wrong: what the generator of version 3 makes
\* stays within the database's move limit and is never called invalid by the verifier; a
\* tick of version 1 or 2 is never a mismatch, nor missing while it is there.
GeneratedVerifies ==
    /\ program = "proof" => NeverBeyondLimit /\ HonestVerifies
    /\ program = "digits" => V!HonestTicksVerify /\ V!RangeIsWhole

\* "Fully verified" means: the ticks published, all of them, of seeds committed in
\* time, and contract results as the database settled them; and a verified tick of
\* version 1 or 2 is the one of the committed seed.
VerifiedIsTrue ==
    /\ program = "proof" => VerifiedTicks /\ VerifiedIsTimely /\ VerifiedResults
    /\ program = "digits" => V!VerifiedFollows
=============================================================================
