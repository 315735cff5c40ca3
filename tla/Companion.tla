------------------------------ MODULE Companion ------------------------------
(***************************************************************************)
(* The companion of the trade page (trade-companion.js): one bubble that   *)
(* explains why buying is blocked, says when a session limit is reached,   *)
(* suggests breaks, and holds the help and the tour.  `evaluate` decides   *)
(* what it shows; it runs after every change of the nodes it watches (a    *)
(* mutation observer, so before anything else happens), every minute, and  *)
(* when a bubble is closed or the companion shown.                         *)
(***************************************************************************)
EXTENDS Naturals

CONSTANTS
    Blocks,         \* why buying may be blocked
    Guards,         \* the limits that end a session: take-profit and stop-loss
    BREAK_TRADES, BREAK_MINUTES,
    Steps,          \* of the tour
    MaxTrades, MaxTime, MaxEvents \* bounds: contracts of a session; minutes; changes and clicks

CompanionBounds ==
    /\ {MaxTrades, MaxTime, MaxEvents} \subseteq Nat
    /\ {BREAK_TRADES, BREAK_MINUTES, Steps} \subseteq Nat \ {0}

VARIABLES
    page,      \* what it watches: the block, the limit reached, the contracts decided
    now,
    bubble,    \* its message; whether the person opened it; the block they closed
    session,   \* the contracts seen, and when the next break is due
    hidden,
    offering,  \* the settings that decide about the first tour are being read
    closed,    \* history: the block closed last, as long as it lasts
    placed,    \* history: contracts decided
    breaks,    \* history: when breaks were suggested, by contracts and by minutes
    events

companionVars == <<page, now, bubble, session, hidden, offering, closed, placed, breaks, events>>

None == "none"
Message(kind, about) == [kind |-> kind, about |-> about]
Nothing == Message(None, None)
Said(b, kind, about) == [b EXCEPT !.message = Message(kind, about)]
NextBreak(trades) == [trades |-> trades, at |-> trades + BREAK_TRADES, time |-> now' + BREAK_MINUTES]

\* breakDue.  A count that went down is that of a new session.
Seen == IF page'.trades < session.trades THEN [NextBreak(0) EXCEPT !.trades = page'.trades]
        ELSE [session EXCEPT !.trades = page'.trades]
breakDue == page'.trades >= Seen.at \/ (page'.trades > 0 /\ now' >= Seen.time)

\* A block the person closed stays closed until there is none, or another.
Explained(b) ==
    IF page'.block \notin {None, b.dismissed} THEN Said(b, "block", page'.block)
    ELSE [b EXCEPT !.dismissed = IF page'.block = None THEN None ELSE @,
                   !.message = IF @.kind = "tour" THEN @ ELSE Nothing]

\* Nothing replaces what the person opened; a limit comes before a break, and a break
\* before a block.
evaluate(b, dismissal) ==
    LET silent == b.pinned \/ hidden'
        stopped == ~silent /\ page'.guard # None
        suggests == ~silent /\ ~stopped /\ breakDue
    IN /\ bubble' = IF silent THEN b
                    ELSE IF stopped THEN Said(b, "guard", page'.guard)
                    ELSE IF suggests THEN Said(b, "break", None)
                    ELSE IF b.message.kind = "break" THEN b
                    ELSE Explained(b)
       /\ session' = IF silent \/ stopped THEN session
                     ELSE IF suggests THEN NextBreak(page'.trades) ELSE Seen
       /\ breaks' = IF suggests THEN breaks \cup {<<placed', now'>>} ELSE breaks
       /\ closed' = IF page'.block = dismissal THEN dismissal ELSE None

Init ==
    /\ page = [block |-> None, guard |-> None, trades |-> 0] /\ now = 0
    /\ bubble = [message |-> Nothing, pinned |-> FALSE, dismissed |-> None]
    /\ session = [trades |-> 0, at |-> BREAK_TRADES, time |-> BREAK_MINUTES]
    /\ hidden \in BOOLEAN /\ offering = ~hidden
    /\ closed = None /\ placed = 0 /\ breaks = {} /\ events = 0

Event == events < MaxEvents /\ events' = events + 1

\* The order ticket and the session summary change.
BlockChanges ==
    /\ Event /\ \E b \in (Blocks \cup {None}) \ {page.block} : page' = [page EXCEPT !.block = b]
    /\ UNCHANGED <<now, hidden, offering, placed>> /\ evaluate(bubble, closed)
ContractDecided ==
    /\ page.trades < MaxTrades /\ placed' = placed + 1
    /\ \E g \in Guards \cup {None} : page' = [page EXCEPT !.trades = @ + 1, !.guard = g]
    /\ UNCHANGED <<now, hidden, offering, events>> /\ evaluate(bubble, closed)
SessionRestarts ==
    /\ Event /\ page.trades > 0 /\ page' = [page EXCEPT !.trades = 0, !.guard = None]
    /\ UNCHANGED <<now, hidden, offering, placed>> /\ evaluate(bubble, closed)
MinutePasses ==
    /\ now < MaxTime /\ now' = now + 1
    /\ UNCHANGED <<page, hidden, offering, placed, events>> /\ evaluate(bubble, closed)

close ==
    /\ Event /\ ~hidden /\ bubble.message # Nothing
    /\ UNCHANGED <<page, now, hidden, offering, placed>>
    /\ LET of(block) == IF bubble.message.kind = "block" THEN bubble.message.about ELSE block
       IN evaluate([message |-> Nothing, pinned |-> FALSE, dismissed |-> of(bubble.dismissed)],
                   of(closed))
Opens(kind, about) ==
    /\ bubble' = [Said(bubble, kind, about) EXCEPT !.pinned = TRUE]
    /\ UNCHANGED <<page, now, session, hidden, placed, breaks, closed>>
showHelp == Event /\ ~hidden /\ bubble.message.kind \notin {"help", "tour"} /\ Opens("help", None)
            /\ UNCHANGED offering
\* From the help, from an offer (step 0), or from the step before.
tour ==
    /\ Event /\ ~hidden /\ UNCHANGED offering
    /\ \/ bubble.message.kind = "help" /\ Opens("tour", 1)
       \/ /\ bubble.message.kind = "tour" /\ bubble.message.about < Steps
          /\ Opens("tour", bubble.message.about + 1)
\* The settings are read: the first visit begins with the tour, an offer, or neither.
SettingsRead ==
    /\ offering /\ offering' = FALSE /\ UNCHANGED events
    /\ \/ Opens("tour", 1)
       \/ /\ bubble' = Said(bubble, "tour", 0)
          /\ UNCHANGED <<page, now, session, hidden, placed, breaks, closed>>
       \/ UNCHANGED <<page, now, bubble, session, hidden, placed, breaks, closed>>
hide ==
    /\ Event /\ ~hidden /\ hidden' = TRUE
    /\ UNCHANGED <<page, now, bubble, session, offering, placed, breaks, closed>>
show ==
    /\ Event /\ hidden /\ hidden' = FALSE
    /\ UNCHANGED <<page, now, offering, placed>> /\ evaluate(bubble, closed)

Next == \/ BlockChanges \/ ContractDecided \/ SessionRestarts \/ MinutePasses
        \/ close \/ showHelp \/ tour \/ SettingsRead \/ hide \/ show
Spec == Init /\ [][Next]_companionVars

-----------------------------------------------------------------------------
TypeOK ==
    /\ page \in [block : Blocks \cup {None}, guard : Guards \cup {None}, trades : 0 .. MaxTrades]
    /\ bubble.message.kind \in {None, "guard", "break", "block", "help", "tour"}
    /\ bubble.dismissed \in Blocks \cup {None} /\ bubble.pinned \in BOOLEAN
    /\ session.trades \in 0 .. MaxTrades /\ closed \in Blocks \cup {None}

\* What the properties below rest on: a block that stays closed is the one the bubble
\* remembers; and since every break suggested, so many contracts or minutes are still to go
\* until the next, also when the session began anew while nothing was said.
Messages == [kind : {None, "break", "help"}, about : {None}] \cup [kind : {"guard"}, about : Guards]
            \cup [kind : {"block"}, about : Blocks] \cup [kind : {"tour"}, about : Nat]
Bubble == [message : Messages, pinned : BOOLEAN, dismissed : Blocks \cup {None}]
CompanionTyped ==
    /\ page \in [block : Blocks \cup {None}, guard : Guards \cup {None}, trades : Nat]
    /\ bubble \in Bubble /\ session \in [trades : Nat, at : Nat, time : Nat]
    /\ {now, placed} \subseteq Nat /\ breaks \subseteq Nat \X Nat
RemembersClosed == closed # None => bubble.dismissed = closed
BreaksToGo ==
    \A x \in breaks :
        /\ x[1] <= placed /\ x[2] <= now
        /\ x[1] + BREAK_TRADES <= placed - page.trades + session.at
        /\ x[2] + BREAK_MINUTES <= session.time
        /\ page.trades < session.trades => x[1] <= placed - page.trades

\* A limit that ended the session is on screen, unless the person opened something else or
\* is being offered the tour.
LimitIsSaid ==
    page.guard # None /\ ~bubble.pinned /\ ~hidden
        => bubble.message \in {Message("guard", page.guard), Message("tour", 0)}

\* Breaks are not pressed on anyone: whatever sessions, limits and bubbles come between,
\* two suggestions are so many contracts or so many minutes apart.
BreaksAreApart ==
    \A x, y \in breaks :
        x # y => \/ x[1] >= y[1] + BREAK_TRADES \/ y[1] >= x[1] + BREAK_TRADES
                 \/ x[2] >= y[2] + BREAK_MINUTES \/ y[2] >= x[2] + BREAK_MINUTES

\* "A block the person closed stays closed until it changes", although limits, breaks and
\* help are shown and closed meanwhile.
ClosedStaysClosed == closed # None => bubble.message # Message("block", closed)
=============================================================================
