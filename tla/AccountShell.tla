---------------------------- MODULE AccountShell ----------------------------
(***************************************************************************)
(* The account switch of every signed-in page (account-switcher.js, over   *)
(* account-context.js) and the account figures of the dashboard            *)
(* (dashboard.js).  Both read the server when the account changes and when *)
(* its balance does; answers come late and in any order.  A server figure  *)
(* is the number of changes the account has had.                           *)
(***************************************************************************)
EXTENDS Naturals, FiniteSets

CONSTANTS
    Practice,   \* the practice account
    Real,       \* what the switch offers as Real
    RealOpen,   \* Real is a trading account; otherwise it is a view without one
    MaxChanges, \* bound: changes of each account
    MaxSwitches,\* bound: switches of account
    MaxCalls,   \* bound: calls under way from each part of the page
    MaxFailures \* bound: failed calls

Nobody == "nobody"
ShellAccounts == Practice # Real /\ Nobody \notin {Practice, Real} /\ RealOpen \in BOOLEAN
ShellBounds == {MaxChanges, MaxSwitches, MaxCalls, MaxFailures} \subseteq Nat

VARIABLES
    startup,    \* how far the page has come
    remembered, \* the account kept on the device under ACTIVE_KEY
    account,    \* the active account (context), or Nobody
    figures,    \* per account: changes on the server
    calls,      \* calls under way
    balance,    \* what the switch shows: [account, figure], Blank or Unavailable
    view,       \* what the dashboard shows, likewise
    best,       \* ghost: latest figure the switch has shown, per account
    changes, switches, failures

shellVars == <<startup, remembered, account, figures, calls, balance, view, best,
               changes, switches, failures>>

Accounts == {Practice, Real}
Blank == [account |-> Nobody, figure |-> 0]
Unavailable == [account |-> Nobody, figure |-> 1]
Figure(a, n) == [account |-> a, figure |-> n]

\* The Real view without a trading account: pages send nothing about it.
isPreview(a) == a = Real /\ ~RealOpen

Fault == failures < MaxFailures /\ failures' = failures + 1

Init ==
    /\ startup = "config" /\ remembered \in Accounts /\ account = Nobody
    /\ figures = [a \in Accounts |-> 0] /\ calls = {}
    /\ balance = Blank /\ view = Blank /\ best = [a \in Accounts |-> 0]
    /\ changes = 0 /\ switches = 0 /\ failures = 0

-----------------------------------------------------------------------------
\* A call, and what it read: nothing yet, or a figure.  Only the latest call of the
\* switch is wanted (balanceRequest); the dashboard compares accounts alone.
Unread == [done |-> FALSE, figure |-> 0]
Call(part, a) == [part |-> part, account |-> a, latest |-> TRUE, answer |-> Unread]
Calls(part) == {c \in calls : c.part = part}
Outdated(part, set) == {IF c.part = part THEN [c EXCEPT !.latest = FALSE] ELSE c : c \in set}

\* refreshBalance: the Real view shows zero at once, an account is asked for.
refreshBalance(a, set) ==
    IF isPreview(a) THEN Outdated("switch", set)
    ELSE Outdated("switch", set) \cup {Call("switch", a)}
\* renderAccount: for the Real view, nothing is asked either.
renderAccount(a, set) ==
    IF isPreview(a) THEN set ELSE set \cup {Call("dashboard", a)}

Room == \A part \in {"switch", "dashboard"} : Cardinality(Calls(part)) < MaxCalls

\* What the page does when the account is (a) and its figures are to be read again:
\* the dashboard is cleared, the switch keeps what it shows.
Refresh(a, shown) ==
    /\ Room
    /\ calls' = renderAccount(a, refreshBalance(a, calls))
    /\ balance' = IF isPreview(a) THEN Figure(a, 0) ELSE shown
    /\ view' = IF isPreview(a) THEN Figure(a, 0) ELSE Blank

\* loadEngineConfig, enroll_practice_account, list_my_accounts: each may fail, and the
\* page then has no account.
NextStep(step) == CASE step = "config" -> "enroll" [] step = "enroll" -> "accounts"
LoadStep ==
    /\ startup \in {"config", "enroll"}
    /\ startup' = NextStep(startup)
    /\ UNCHANGED <<remembered, account, figures, calls, balance, view, best, changes, switches, failures>>
StartFails ==
    /\ startup \in {"config", "enroll", "accounts"} /\ Fault
    /\ startup' = "unavailable"
    /\ balance' = Unavailable /\ view' = Unavailable
    /\ UNCHANGED <<remembered, account, figures, calls, best, changes, switches>>
\* The page opens on the account kept on the device, and the dashboard renders it.
choose ==
    /\ startup = "accounts"
    /\ startup' = "open"
    /\ account' = remembered
    /\ Refresh(remembered, balance)
    /\ UNCHANGED <<remembered, figures, best, changes, switches, failures>>

\* The customer chooses the other account of the menu.
select ==
    \E a \in Accounts \ {account} :
        /\ startup = "open" /\ switches < MaxSwitches
        /\ switches' = switches + 1
        /\ remembered' = a /\ account' = a
        /\ Refresh(a, Blank)
        /\ UNCHANGED <<startup, figures, best, changes, failures>>

\* A contract is bought or settled: a page that bought says so (smartprofit:balance-changed),
\* a settlement by the engine says nothing.
Changes(a) == changes < MaxChanges /\ ~isPreview(a)
              /\ changes' = changes + 1 /\ figures' = [figures EXCEPT ![a] = @ + 1]
BalanceChanged ==
    \E a \in Accounts, told \in BOOLEAN :
        /\ startup = "open" /\ Changes(a)
        /\ IF told THEN Refresh(account, balance)
           ELSE UNCHANGED <<calls, balance, view>>
        /\ UNCHANGED <<startup, remembered, account, best, switches, failures>>

\* Practice funds are reset from the menu: the server resets, then the page hears of it.
AskReset ==
    /\ startup = "open" /\ ~\E c \in calls : c.part = "reset"
    /\ calls' = calls \cup {Call("reset", Practice)}
    /\ UNCHANGED <<startup, remembered, account, figures, balance, view, best, changes, switches, failures>>
ServerResets ==
    \E c \in Calls("reset") :
        /\ ~c.answer.done /\ Changes(Practice)
        /\ calls' = (calls \ {c}) \cup {[c EXCEPT !.answer.done = TRUE]}
        /\ UNCHANGED <<startup, remembered, account, balance, view, best, switches, failures>>
ResetAnswered ==
    \E c \in Calls("reset") :
        /\ c.answer.done /\ Room
        /\ calls' = renderAccount(account, refreshBalance(account, calls \ {c}))
        /\ balance' = IF isPreview(account) THEN Figure(account, 0) ELSE balance
        /\ view' = IF isPreview(account) THEN Figure(account, 0) ELSE Blank
        /\ UNCHANGED <<startup, remembered, account, figures, best, changes, switches, failures>>

\* get_account_summary and the dashboard's four calls read the server at some moment.
ReadFigures ==
    \E c \in calls :
        /\ c.part # "reset" /\ ~c.answer.done
        /\ calls' = (calls \ {c}) \cup {[c EXCEPT !.answer = [done |-> TRUE, figure |-> figures[c.account]]]}
        /\ UNCHANGED <<startup, remembered, account, figures, balance, view, best, changes, switches, failures>>

\* The switch uses the answer of its latest request alone.
Wanted(c) == c.latest
ShowBalance ==
    \E c \in Calls("switch") :
        /\ c.answer.done
        /\ calls' = calls \ {c}
        /\ IF Wanted(c)
           THEN /\ balance' = Figure(c.account, c.answer.figure)
                /\ best' = [best EXCEPT ![c.account] = IF c.answer.figure > @ THEN c.answer.figure ELSE @]
           ELSE UNCHANGED <<balance, best>>
        /\ UNCHANGED <<startup, remembered, account, figures, view, changes, switches, failures>>

\* The dashboard drops answers for an account that is no longer the active one.
ShowAccount ==
    \E c \in Calls("dashboard") :
        /\ c.answer.done
        /\ calls' = calls \ {c}
        /\ view' = IF c.account = account THEN Figure(c.account, c.answer.figure) ELSE view
        /\ UNCHANGED <<startup, remembered, account, figures, balance, best, changes, switches, failures>>

\* A call fails: what it was for is shown as unavailable, under the same conditions.
CallFails ==
    \E c \in calls :
        /\ Fault
        /\ calls' = calls \ {c}
        /\ balance' = IF c.part = "switch" /\ Wanted(c) THEN Unavailable ELSE balance
        /\ view' = IF c.part = "dashboard" /\ c.account = account THEN Unavailable ELSE view
        /\ UNCHANGED <<startup, remembered, account, figures, best, changes, switches>>

Next ==
    \/ LoadStep \/ StartFails \/ choose \/ select \/ BalanceChanged
    \/ AskReset \/ ServerResets \/ ResetAnswered
    \/ ReadFigures \/ ShowBalance \/ ShowAccount \/ CallFails
Spec == Init /\ [][Next]_shellVars

-----------------------------------------------------------------------------
TypeOK ==
    /\ startup \in {"config", "enroll", "accounts", "open", "unavailable"}
    /\ remembered \in Accounts /\ account \in Accounts \cup {Nobody}
    /\ {balance, view} \subseteq [account : Accounts \cup {Nobody}, figure : 0 .. MaxChanges + 1]
    /\ \A a \in Accounts : best[a] <= figures[a] /\ figures[a] <= MaxChanges

\* What the proofs need: what the switch has shown is no newer than the server, and only
\* one of its calls is wanted, of the active account, which will not show less.
ShellTyped ==
    /\ remembered \in Accounts /\ account \in IF startup = "open" THEN Accounts ELSE {Nobody}
    /\ figures = [a \in Accounts |-> figures[a]] /\ best = [a \in Accounts |-> best[a]]
    /\ \A a \in Accounts : /\ figures[a] \in Nat /\ best[a] \in 0 .. figures[a]
                           /\ isPreview(a) => figures[a] = 0
    /\ balance.figure \in Nat
CallsAreCalls ==
    \A c \in calls :
        /\ c = [part |-> c.part, account |-> c.account, latest |-> c.latest, answer |-> c.answer]
        /\ c.account \in Accounts /\ account \in Accounts
OneIsWanted ==
    /\ \A c, d \in Calls("switch") : Wanted(c) /\ Wanted(d) => c = d
    /\ \A c \in Calls("switch") :
          Wanted(c) => /\ c.account = account
                       /\ c.answer.done => c.answer.figure \in best[account] .. figures[account]

\* The page never shows one account's money under another account's name, and the
\* balance in the switch never goes back to a figure older than one it has shown,
\* however the answers of switched, reset and refreshed accounts overtake each other.
BalanceIsCurrent ==
    /\ balance.account # Nobody => balance.account = account
    /\ view.account # Nobody => view.account = account
    /\ balance.account \in Accounts => balance.figure >= best[balance.account]
=============================================================================
