---------------------------- MODULE Notifications ----------------------------
(***************************************************************************)
(* The notification sheet (notifications.js) over list_my_notifications    *)
(* (20261003100000).  A notification is the number of its created_at,      *)
(* which is the start of the transaction that makes it: it may appear      *)
(* after a later one.  Read marks and announcements are left out.          *)
(***************************************************************************)
EXTENDS Naturals, FiniteSets, Sequences, SequencesExt

CONSTANTS
    Stamps,     \* bound: the notifications the user gets
    Page,       \* PAGE: notifications in one answer
    MaxLoads,   \* bound: calls under way
    MaxFailures \* bound: failed calls

InboxBounds == Stamps \subseteq Nat \ {0} /\ IsFiniteSet(Stamps)
               /\ Page \in Nat \ {0} /\ MaxLoads \in Nat /\ MaxFailures \in Nat

VARIABLES
    begun,      \* notifications whose transaction has started
    sent,       \* those among them committed
    sheet,      \* "never" opened, "open" or "closed"
    items,      \* what the sheet lists, newest first
    more,       \* there may be earlier ones
    loads,      \* load() calls under way
    appending,  \* "Show earlier" waits (the button is disabled)
    state,      \* "loading", "error" or "ready"
    base,       \* ghost: notifications there were when the first page shown was read
    failures

inboxVars == <<begun, sent, sheet, items, more, loads, appending, state, base, failures>>

Init ==
    /\ begun = {} /\ sent = {} /\ sheet = "never" /\ items = <<>> /\ more = FALSE
    /\ loads = {} /\ appending = FALSE /\ state = "ready" /\ base = {} /\ failures = 0

\* deliver_notification in another session's transaction, in two moments.
Begin ==
    /\ \E n \in Stamps : (\A m \in begun : n > m) /\ begun' = begun \cup {n}
    /\ UNCHANGED <<sent, sheet, items, more, loads, appending, state, base, failures>>

\* A call: which page it wants, whether a later call has been made (loadId), what it read.
NoAnswer == [done |-> FALSE, page |-> <<>>, visible |-> {}]
NoCursor == 0
cursor == IF items = <<>> THEN NoCursor ELSE Last(items)
Call(append, before) == [append |-> append, before |-> before, latest |-> TRUE, answer |-> NoAnswer]
load(append) ==
    /\ Cardinality(loads) < MaxLoads
    /\ loads' = {[c EXCEPT !.latest = FALSE] : c \in loads}
                \cup {Call(append, IF append THEN cursor ELSE NoCursor)}
    /\ state' = IF append THEN state ELSE "loading"

\* The commit tells the page over Realtime, unless the message is lost; an open sheet
\* is read again.
Commit ==
    /\ \E n \in begun \ sent : sent' = sent \cup {n}
    /\ IF sheet = "open" THEN load(FALSE) \/ UNCHANGED <<loads, state>>
       ELSE UNCHANGED <<loads, state>>
    /\ UNCHANGED <<begun, sheet, items, more, appending, base, failures>>

open ==
    /\ sheet # "open" /\ sheet' = "open" /\ load(FALSE)
    /\ UNCHANGED <<begun, sent, items, more, appending, base, failures>>
closeSheet ==
    /\ sheet = "open" /\ sheet' = "closed"
    /\ UNCHANGED <<begun, sent, items, more, loads, appending, state, base, failures>>
Retry ==
    /\ sheet = "open" /\ state = "error" /\ load(FALSE)
    /\ UNCHANGED <<begun, sent, sheet, items, more, appending, base, failures>>
\* "Show earlier"; marking an entry read renders the list again and brings the button
\* back while a first page is being loaded.
ShowEarlier ==
    /\ sheet = "open" /\ more /\ ~appending /\ load(TRUE)
    /\ appending' = TRUE
    /\ UNCHANGED <<begun, sent, sheet, items, more, base, failures>>

\* list_my_notifications: a page of those created before the cursor, newest first.
Older(before) == {n \in sent : before = NoCursor \/ n < before}
Earlier(before) ==
    LET place(n) == Cardinality({m \in Older(before) : m >= n})
        shown == IF Cardinality(Older(before)) <= Page THEN Cardinality(Older(before)) ELSE Page
    IN  [i \in 1 .. shown |-> CHOOSE n \in Older(before) : place(n) = i]
ServerLists ==
    \E c \in loads :
        /\ ~c.answer.done
        /\ loads' = (loads \ {c}) \cup
               {[c EXCEPT !.answer = [done |-> TRUE, page |-> Earlier(c.before), visible |-> sent]]}
        /\ UNCHANGED <<begun, sent, sheet, items, more, appending, state, base, failures>>

\* Only the answer of the latest call is used.
Uses(c) == c.latest
Answered ==
    \E c \in loads :
        /\ c.answer.done
        /\ loads' = loads \ {c}
        /\ appending' = (appending /\ ~c.append)
        /\ IF Uses(c)
           THEN /\ items' = IF c.append THEN items \o c.answer.page ELSE c.answer.page
                /\ base' = IF c.append THEN base ELSE c.answer.visible
                /\ more' = (Len(c.answer.page) = Page)
                /\ state' = "ready"
           ELSE UNCHANGED <<items, base, more, state>>
        /\ UNCHANGED <<begun, sent, sheet, failures>>
LoadFails ==
    \E c \in loads :
        /\ failures < MaxFailures /\ failures' = failures + 1
        /\ loads' = loads \ {c}
        /\ appending' = (appending /\ ~c.append)
        /\ state' = IF Uses(c) THEN "error" ELSE state
        /\ UNCHANGED <<begun, sent, sheet, items, more, base>>

Next == \/ Begin \/ Commit \/ open \/ closeSheet \/ Retry \/ ShowEarlier
        \/ ServerLists \/ Answered \/ LoadFails
Spec == Init /\ [][Next]_inboxVars

-----------------------------------------------------------------------------
TypeOK ==
    /\ sent \subseteq begun /\ begun \subseteq Stamps /\ ToSet(items) \subseteq sent
    /\ sheet \in {"never", "open", "closed"} /\ state \in {"loading", "error", "ready"}
    /\ more \in BOOLEAN /\ appending \in BOOLEAN /\ base \subseteq sent

\* The sheet never leaves a notification out between two it lists, nor lists one twice,
\* although pages are fetched while new notifications arrive and calls overtake each
\* other: everything there was when its first page was read, down to its last entry.
InboxNoGaps ==
    /\ \A i, j \in DOMAIN items : i < j => items[i] > items[j]
    /\ items # <<>> => \A n \in base : n >= Last(items) => n \in ToSet(items)

\* What the proofs need: an answered page is sorted and whole, and the call whose answer
\* will be used continues what is listed, of what was there when it began.
IsPage(page, visible, before) ==
    /\ page \in Seq(visible) /\ \A i, j \in DOMAIN page : i < j => page[i] > page[j]
    /\ before # NoCursor => \A i \in DOMAIN page : page[i] < before
    /\ page # <<>> => \A n \in visible :
          n >= Last(page) /\ (before = NoCursor \/ n < before) => n \in ToSet(page)
LoadsContinue ==
    /\ sent \subseteq Stamps /\ base \subseteq sent /\ items \in Seq(Stamps) /\ (more => items # <<>>)
    /\ \A c, d \in loads : c.latest /\ d.latest => c = d
    /\ \A c \in loads :
          /\ c = [append |-> c.append, before |-> c.before, latest |-> c.latest, answer |-> c.answer]
          /\ {c.append, c.latest, c.answer.done} \subseteq BOOLEAN
          /\ ~c.append => c.before = NoCursor
          /\ c.answer.done => c.answer.visible \subseteq sent /\ IsPage(c.answer.page, c.answer.visible, c.before)
          /\ c.append /\ c.latest =>
                /\ items # <<>> /\ c.before = Last(items)
                /\ c.answer.done => base \subseteq c.answer.visible
=============================================================================
