---------------------------- MODULE SessionPages ----------------------------
(***************************************************************************)
(* The programs of a page that follow who is there: sign-in, the welcome   *)
(* questions, the account switch, the cookie choice, and the toasts; and   *)
(* the tick check of the fairness page, open to anybody.                   *)
(***************************************************************************)
EXTENDS Slots

CONSTANTS  \* the constants of each program: a record of them
    Entrance, Tailoring, Shell, Cookies, Toast, Digits, Block(_, _)

-----------------------------------------------------------------------------
\* The forms that let people in.
L == INSTANCE SignIn WITH
    Forms <- Entrance.Forms, Limits <- Entrance.Limits, Accounts <- Entrance.Accounts,
    Staff <- Entrance.Staff, MaxTime <- Entrance.MaxTime, MaxTries <- Entrance.MaxTries,
    MaxFaults <- Entrance.MaxFaults, form <- v1, now <- v2, limit <- v3, task <- v4,
    store <- v5, checking <- v6, recorded <- v7, faults <- v8

\* The welcome questions and the settings that follow from them.
W == INSTANCE Welcome WITH
    Customers <- Tailoring.Customers, Choices <- Tailoring.Choices,
    MaxLogins <- Tailoring.MaxLogins, MaxSaves <- Tailoring.MaxSaves,
    MaxFaults <- Tailoring.MaxFaults, server <- v1, user <- v2, page <- v3, step <- v4,
    kept <- v5, tailored <- v6, current <- v7, known <- v8, asking <- v9, saving <- v10,
    leaving <- v11, logins <- v12, saves <- v13, faults <- v14

\* The account switch and the dashboard.
A == INSTANCE AccountShell WITH
    Practice <- Shell.Practice, Real <- Shell.Real, RealOpen <- Shell.RealOpen,
    MaxChanges <- Shell.MaxChanges, MaxSwitches <- Shell.MaxSwitches,
    MaxCalls <- Shell.MaxCalls, MaxFailures <- Shell.MaxFailures, startup <- v1,
    remembered <- v2, account <- v3, figures <- v4, calls <- v5, balance <- v6,
    view <- v7, best <- v8, changes <- v9, switches <- v10, failures <- v11

\* The cookie choice.
K == INSTANCE Consent WITH
    Pages <- Cookies.Pages, Keys <- Cookies.Keys, Values <- Cookies.Values,
    MaxChoices <- Cookies.MaxChoices, cookie <- v1, device <- v2, record <- v3,
    memory <- v4, choices <- v5, elsewhere <- v6

\* The toasts of every page.
P == INSTANCE Toasts WITH
    Groups <- Toast.Groups, TOAST_LIMIT <- Toast.TOAST_LIMIT,
    MaxToasts <- Toast.MaxToasts, MaxMoves <- Toast.MaxMoves,
    MaxSettings <- Toast.MaxSettings, host <- v1, group <- v2, timed <- v3,
    pointer <- v4, focus <- v5, pendingAnnouncements <- v6, tradeOn <- v7, heard <- v8,
    moves <- v9, settings <- v10

\* The tick check of the fairness page.
V == INSTANCE DigitProof WITH
    Seedings <- Digits.Seedings, Block <- Block, Base <- Digits.Base,
    Sigma <- Digits.Sigma, Kappa <- Digits.Kappa, Decimals <- Digits.Decimals,
    TicksPerDay <- Digits.TicksPerDay, Ranges <- Digits.Ranges,
    Alterations <- Digits.Alterations, OtherSeed <- Digits.OtherSeed,
    PageSize <- Digits.PageSize, LastTick <- Digits.LastTick,
    FirstTick <- Digits.FirstTick, MaxFaults <- Digits.MaxFaults, seeds <- v1,
    v2start <- v2, shown <- v3, stored <- v4, last <- v5, revealed <- v6, altered <- v7,
    step <- v8, range <- v9, after <- v10, got <- v11, result <- v12, throughout <- v13,
    faults <- v14

-----------------------------------------------------------------------------
(* What the constants of the modules have to be *)

ASSUME SessionAssumptions ==
    /\ L!SignInForms /\ L!SignInLimits /\ L!SignInBounds
    /\ W!WelcomeBounds
    /\ A!ShellAccounts /\ A!ShellBounds
    /\ K!ConsentAssumption
    /\ P!ToastBounds
    /\ V!ProofBounds
=============================================================================
