------------------------------ MODULE MCClients ------------------------------
(***************************************************************************)
(* Small instances of the programs of Clients.                             *)
(***************************************************************************)
EXTENDS Clients

-----------------------------------------------------------------------------
(* Values with a shape of their own *)

\* A member of staff with every tab, and one with two of them.
TabsOf == "a" :> {"overview", "customers", "contracts", "engine", "funding", "notifications", "staff", "audit"}
          @@ "b" :> {"customers", "funding"}

\* Sessions that change, decisions under way while other cards are opened, and
\* cards opened one over the other.
SomeBudgets == { [events |-> 2, reads |-> 1, submits |-> 0, failures |-> 1],
                 [events |-> 0, reads |-> 2, submits |-> 2, failures |-> 0],
                 [events |-> 0, reads |-> 1, submits |-> 2, failures |-> 1],
                 [events |-> 0, reads |-> 3, submits |-> 0, failures |-> 0] }

QuantityDecimals == "B" :> 5 @@ "E" :> 4

\* Two attempts in two minutes, then a pause of two.
FormLimits == [f \in {"signin", "staff-signin", "signup", "password-reset", "resend-confirmation"}
                   |-> [max |-> 2, window |-> 3, lock |-> 2]]

\* Two requests reach one instance of the function, the third another.
Hosts == "q1" :> "i1" @@ "q2" :> "i1" @@ "q3" :> "i2"

\* Two ticks to a day and three days; prices of two digits and draws that move
\* them by one or two tens up or down, some of them out of the band.
Up == [z |-> 2, parity |-> 1, residue |-> 9]
Down == [z |-> -2, parity |-> 1, residue |-> 0]
Flat == [z |-> -1, parity |-> 0, residue |-> 3]
SomeSeeds == {<<Up, Flat>>, <<Down, Down>>}
SquaredSigma(vol) == (vol * vol * 107) \div 4

\* What two bytes more or less make of a price near its base, version 2 from any day.
DigitBlock(seed, n) ==
    LET k == 3 * seed + 2 * n
    IN  [digit |-> k % 10, tens |-> 8 + (k % 3), sum |-> (970 * k) % 3061,
         residue |-> (7 * k) % 10, even |-> n % 2 = 0]
Whole(n) == [n |-> n, places |-> 0]
DigitAlterations == {[kind |-> "digit", at |-> 3], [kind |-> "previous", at |-> 3],
                     [kind |-> "seed", at |-> 1]}

-----------------------------------------------------------------------------
(* The constants of each program *)

FeedValues == [Numbers |-> <<1, 2, 3, 5, 6>>, PageSize |-> 2, Window |-> 3,
    MaxQueue |-> 2, MaxFailures |-> 2]
TradeValues == [Accounts |-> {"demo", "real"}, Preview |-> {}, Orders |-> {"o1", "o2"},
    Results |-> {"LOST"}, StopLoss |-> 1, MaxBuys |-> 2, MaxSwitches |-> 2,
    MaxFailures |-> 1]
ShellValues == [Practice |-> "practice", Real |-> "real", RealOpen |-> TRUE,
    MaxChanges |-> 2, MaxSwitches |-> 1, MaxCalls |-> 2, MaxFailures |-> 1]
InboxValues == [Stamps |-> 1 .. 3, Page |-> 1, MaxLoads |-> 2, MaxFailures |-> 1]
DepositValues == [Quotes |-> {1}, MaxRequests |-> 2, MaxFaults |-> 1, MaxSaves |-> 1]
DeskValues == [Tickets |-> {"t1"}, Texts |-> {"x", "y"}, MaxSends |-> 2,
    MaxLoads |-> 3, MaxUpsets |-> 1]
ConsoleValues == [Staff |-> {"a", "b"}, Items |-> {"i", "j"}, Capabilities |-> TabsOf,
    Budgets |-> SomeBudgets]
SpotValues == [Pairs |-> {"B", "E"}, Orderable |-> {"B"},
    Decimals |-> QuantityDecimals, Sides |-> {"buy", "sell"}, Amounts |-> {1},
    MaxSwitches |-> 1, MaxClicks |-> 2, MaxFaults |-> 1]
CookiesValues == [Pages |-> {"p", "q"}, Keys |-> {"k1", "k2"}, Values |-> {"v", "w"},
    MaxChoices |-> 3]
QuotesValues == [Requests |-> {"q1", "q2", "q3"}, Instances |-> {"i1", "i2"},
    Host |-> Hosts, MaxFaults |-> 1]
EntranceValues == [Forms |-> DOMAIN FormLimits, Limits |-> FormLimits,
    Accounts |-> {"a", "b"}, Staff |-> {"b"}, MaxTime |-> 3, MaxTries |-> 3,
    MaxFaults |-> 1]
TailoringValues == [Customers |-> {"a", "b"}, Choices |-> {"x"}, MaxLogins |-> 2,
    MaxSaves |-> 2, MaxFaults |-> 1]
ContactValues == [People |-> {"a", "b"}, HourlyLimit |-> 1, MaxTexts |-> 2,
    MaxSubmits |-> 3, MaxLoads |-> 2, MaxChanges |-> 1, MaxFaults |-> 1]
StaffSendsValues == [Targets |-> {"c", "d"}, MaxEdits |-> 2, MaxOpens |-> 1,
    MaxSubmits |-> 3, MaxFaults |-> 1]
CoachValues == [Blocks |-> {"x"}, Guards |-> {"stop"}, BREAK_TRADES |-> 2,
    BREAK_MINUTES |-> 2, Steps |-> 1, MaxTrades |-> 2, MaxTime |-> 2, MaxEvents |-> 3]
ToastValues == [Groups |-> {"trade", "other"}, TOAST_LIMIT |-> 2, MaxToasts |-> 3,
    MaxMoves |-> 3, MaxSettings |-> 1]
DigitsValues == [Seedings |-> {<<2, 5, 4, 1>>}, Base |-> Whole(10),
    Sigma |-> [n |-> 2, places |-> 2], Kappa |-> [n |-> 3, places |-> 1],
    Decimals |-> 1, TicksPerDay |-> 2, Ranges |-> {<<2, 5>>, <<1, 3>>},
    Alterations |-> DigitAlterations, OtherSeed |-> 9, PageSize |-> 2, LastTick |-> 6,
    FirstTick |-> 5, MaxFaults |-> 1]
=============================================================================
