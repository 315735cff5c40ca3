------------------------------ MODULE TickFeed ------------------------------
(***************************************************************************)
(* The tick stream of one index on the trading page (createTickFeed,       *)
(* assets/js/trade.js).  The page holds a window of the index's ticks.  A  *)
(* broadcast brings the next one; a jump, a reconnection and a silence are *)
(* repaired by reading pages from the server.  Reads are serialised: one   *)
(* task runs at a time, and its calls can fail.                            *)
(***************************************************************************)
EXTENDS Naturals, Sequences, FiniteSets, SequencesExt

CONSTANTS
    Numbers,    \* the tick numbers of the index, in the order it gets them: a resume skips some
    PageSize,   \* PAGE_SIZE: ticks in one answer
    Window,     \* MAX_TICKS: ticks held
    MaxQueue,   \* bound: tasks waiting (the code's queue has none)
    MaxFailures \* bound: failed calls, lost broadcasts and dropped channels

FeedNumbers == /\ Numbers \in Seq(Nat \ {0}) /\ Numbers # <<>>
               /\ \A i, j \in DOMAIN Numbers : i < j => Numbers[i] < Numbers[j]
FeedBounds == /\ PageSize \in Nat \ {0} /\ Window \in Nat \ {0}
              /\ MaxQueue \in Nat \ {0} /\ MaxFailures \in Nat

VARIABLES
    published,  \* how many of them the server has
    wire,       \* broadcasts on their way to this page, in order
    ticks,      \* the numbers the feed holds, oldest first
    phase,      \* of open(): "loading", "joining", "joined", "failed", "closed"
    subscribed, \* the channel's status is SUBSCRIBED
    fresh,      \* a tick came within the last three intervals
    armed,      \* the stale guard's timer runs
    queue,      \* tasks waiting their turn
    task,       \* the running task
    seen,       \* last number given to onTicks
    shown,      \* the state last given to onState
    failures

feedVars == <<published, wire, ticks, phase, subscribed, fresh, armed, queue,
              task, seen, shown, failures>>

Held == ToSet(ticks)

Idle == [step |-> "idle"]
Tasks == {[kind |-> "load"], [kind |-> "catchUp"]}
         \cup [kind : {"receive"}, tick : ToSet(Numbers)]

\* The highest tick number held, 0 before the first one.
last(held) == IF held = <<>> THEN 0 ELSE Last(held)

Published == SubSeq(Numbers, 1, published)
Newest == last(Published)

\* What the page is told: live or polling only while fresh.
state(isFresh, isSubscribed, held) ==
    IF isFresh THEN (IF isSubscribed THEN "live" ELSE "polling")
    ELSE IF held = <<>> THEN "empty" ELSE "stale"

\* A plausible error: the channel alone decides, and its silence is not noticed.
PollsOnlyUnsubscribed == phase # "closed" /\ ~subscribed

\* The poll timer runs unless ticks arrive through the channel.
polling == phase # "closed" /\ (~subscribed \/ ~fresh)

\* Of rows sorted by their numbers, those after a number.
newer(rows, number) ==
    LET old == CHOOSE k \in 0 .. Len(rows) : \A i \in DOMAIN rows : rows[i] <= number <=> i <= k
    IN  SubSeq(rows, old + 1, Len(rows))

\* Rows not newer than the last one held are ignored; the window drops its oldest ticks.
append(held, rows) ==
    LET added == held \o newer(rows, last(held))
    IN  IF Len(added) <= Window THEN added
        ELSE SubSeq(added, Len(added) - Window + 1, Len(added))

\* get_ticks_since: the ticks after a number, oldest first, at most a page of them.
TicksSince(after) ==
    LET rows == newer(Published, after)
    IN  IF Len(rows) <= PageSize THEN rows ELSE SubSeq(rows, 1, PageSize)

Init ==
    /\ published \in {0, 1}
    /\ wire = <<>> /\ ticks = <<>> /\ phase = "loading"
    /\ subscribed = FALSE /\ fresh = FALSE /\ armed = FALSE
    /\ queue = <<[kind |-> "load"]>> /\ task = Idle
    /\ seen = 0 /\ shown = "loading" /\ failures = 0

-----------------------------------------------------------------------------
\* The index gets its next tick; it is broadcast to the subscribed pages.
PublishTick ==
    /\ published < Len(Numbers)
    /\ published' = published + 1
    /\ wire' = IF subscribed THEN Append(wire, Numbers[published + 1]) ELSE wire
    /\ UNCHANGED <<ticks, phase, subscribed, fresh, armed, queue, task, seen, shown, failures>>

Fault == failures < MaxFailures /\ failures' = failures + 1

\* A broadcast is lost.
LoseBroadcast ==
    /\ wire # <<>> /\ Fault
    /\ wire' = Tail(wire)
    /\ UNCHANGED <<published, ticks, phase, subscribed, fresh, armed, queue, task, seen, shown>>

\* A broadcast reaches the page and queues a task.
receive ==
    /\ wire # <<>> /\ phase = "joined" /\ Len(queue) < MaxQueue
    /\ wire' = Tail(wire)
    /\ queue' = Append(queue, [kind |-> "receive", tick |-> Head(wire)])
    /\ UNCHANGED <<published, ticks, phase, subscribed, fresh, armed, task, seen, shown, failures>>

\* The poll timer queues a reading.  The code queues one at every interval,
\* behind whatever waits; here one waits at a time.
Poll ==
    /\ polling /\ Len(queue) < MaxQueue /\ [kind |-> "catchUp"] \notin ToSet(queue)
    /\ queue' = Append(queue, [kind |-> "catchUp"])
    /\ UNCHANGED <<published, wire, ticks, phase, subscribed, fresh, armed, task, seen, shown, failures>>

\* Three intervals without a tick: the state turns stale and polling starts.
StaleGuardFires ==
    /\ armed /\ armed' = FALSE
    /\ fresh' = FALSE
    /\ shown' = state(FALSE, subscribed, ticks)
    /\ UNCHANGED <<published, wire, ticks, phase, subscribed, queue, task, seen, failures>>

-----------------------------------------------------------------------------
\* The end of a task that held `before` as its last number when it started:
\* only a task that moved the last number reports ticks and freshness.  The
\* first task is the load that open() waits for.
Finish(held, before) ==
    /\ ticks' = held
    /\ task' = Idle
    /\ IF last(held) # before
       THEN /\ fresh' = TRUE /\ armed' = TRUE
            /\ seen' = last(held)
            /\ shown' = state(TRUE, subscribed, held)
       ELSE /\ UNCHANGED <<fresh, armed, seen>>
            /\ shown' = IF phase = "loading" /\ held = <<>> THEN "empty" ELSE shown
    /\ phase' = IF phase = "loading" THEN "joining" ELSE phase
    /\ UNCHANGED <<published, wire, subscribed, queue, failures>>

\* After a repair the broadcast tick itself is appended if it is the next one.
WithTick(held, tick) == IF tick = last(held) + 1 THEN append(held, <<tick>>) ELSE held

Reading(step, after, tick, before) ==
    [step |-> step, after |-> after, tick |-> tick, before |-> before]
Read(step, after, tick) ==
    /\ task' = Reading(step, after, tick, last(ticks))
    /\ UNCHANGED <<published, wire, ticks, phase, subscribed, fresh, armed, seen, shown, failures>>

\* A plausible error: whatever is newer is appended.
TrustsBroadcasts(job) ==
    IF job.kind # "receive" THEN Read("page", last(ticks), 0)
    ELSE /\ ticks' = append(ticks, <<job.tick>>)
         /\ UNCHANGED <<published, wire, phase, subscribed, fresh, armed, task, seen, shown, failures>>

\* A task takes its turn: a broadcast tick that is old is ignored, the next one is
\* appended, a jump is read from the server, a jump beyond the window is reloaded.
Handles(job) ==
    LET current == last(ticks)
    IN  CASE job.kind = "load" -> Read("latest", 0, 0)
          [] job.kind = "catchUp" ->
                IF current > 0 THEN Read("page", current, 0) ELSE Read("latest", 0, 0)
          [] job.kind = "receive" ->
                IF job.tick <= current
                THEN UNCHANGED <<published, wire, ticks, phase, subscribed, fresh, armed, task, seen, shown, failures>>
                ELSE IF current > 0 /\ job.tick = current + 1
                THEN /\ ticks' = append(ticks, <<job.tick>>)
                     /\ fresh' = TRUE /\ armed' = TRUE /\ seen' = job.tick
                     /\ shown' = state(TRUE, subscribed, ticks')
                     /\ UNCHANGED <<published, wire, phase, subscribed, task, failures>>
                ELSE IF current = 0 \/ job.tick - current > Window
                THEN Read("latest", 0, job.tick)
                ELSE Read("page", current, job.tick)

serial ==
    /\ phase # "closed" /\ task = Idle /\ queue # <<>>
    /\ queue' = Tail(queue)
    /\ Handles(Head(queue))

\* loadLatest: the newest tick says from where the window is read again.
loadLatest ==
    /\ task # Idle /\ task.step = "latest" /\ phase # "closed"
    /\ IF published = 0 THEN Finish(WithTick(ticks, task.tick), task.before)
       ELSE /\ ticks' = <<>>
            /\ task' = [task EXCEPT !.step = "page",
                                    !.after = IF Newest > Window THEN Newest - Window ELSE 0]
            /\ UNCHANGED <<published, wire, phase, subscribed, fresh, armed, queue, seen, shown, failures>>

\* pageFrom: pages are appended until one is not full (\E only names the page and what is
\* held with it).
pageFrom ==
    /\ task # Idle /\ task.step = "page" /\ phase # "closed"
    /\ \E page \in {TicksSince(task.after)} : \E held \in {append(ticks, page)} :
           IF Len(page) < PageSize
           THEN Finish(WithTick(held, task.tick), task.before)
           ELSE /\ ticks' = held
                /\ task' = [task EXCEPT !.after = Last(page)]
                /\ UNCHANGED <<published, wire, phase, subscribed, fresh, armed, queue, seen, shown, failures>>

\* A call fails: the error is reported, and what the task had appended stays.
ReadFails ==
    /\ task # Idle /\ phase # "closed" /\ Fault
    /\ task' = Idle
    /\ phase' = IF phase = "loading" THEN "joining" ELSE phase
    /\ shown' = IF phase = "loading" /\ ticks = <<>> THEN "empty" ELSE shown
    /\ UNCHANGED <<published, wire, ticks, subscribed, fresh, armed, queue, seen>>

\* The answer of a call that was under way when the feed was closed is dropped.
LateAnswer ==
    /\ phase = "closed" /\ task # Idle
    /\ task' = Idle
    /\ UNCHANGED <<published, wire, ticks, phase, subscribed, fresh, armed, queue, seen, shown, failures>>

\* open() joins the private channel after the first load; without its token it gives up
\* on the channel and the page keeps polling.
open ==
    /\ phase = "joining"
    /\ \/ phase' = "joined" /\ UNCHANGED failures
       \/ phase' = "failed" /\ Fault
    /\ UNCHANGED <<published, wire, ticks, subscribed, fresh, armed, queue, task, seen, shown>>

\* The channel reports a status: a subscription starts with a reading of what was missed.
Subscribed ==
    /\ phase = "joined" /\ ~subscribed /\ Len(queue) < MaxQueue
    /\ subscribed' = TRUE
    /\ shown' = state(fresh, TRUE, ticks)
    /\ queue' = Append(queue, [kind |-> "catchUp"])
    /\ UNCHANGED <<published, wire, ticks, phase, fresh, armed, task, seen, failures>>
Dropped ==
    /\ phase = "joined" /\ subscribed /\ Fault
    /\ subscribed' = FALSE /\ wire' = <<>>
    /\ shown' = state(fresh, FALSE, ticks)
    /\ UNCHANGED <<published, ticks, phase, fresh, armed, queue, task, seen>>

\* The page leaves the index or the account.
close ==
    /\ phase # "closed"
    /\ phase' = "closed" /\ armed' = FALSE
    /\ subscribed' = FALSE /\ wire' = <<>> /\ queue' = <<>>
    /\ UNCHANGED <<published, ticks, fresh, task, seen, shown, failures>>

Next ==
    \/ PublishTick \/ LoseBroadcast \/ receive \/ Poll \/ StaleGuardFires
    \/ serial \/ loadLatest \/ pageFrom \/ ReadFails \/ LateAnswer
    \/ open \/ Subscribed \/ Dropped \/ close

\* The browser runs its timers and its queue; a call is answered or fails.
Fairness ==
    /\ WF_feedVars(serial) /\ WF_feedVars(loadLatest) /\ WF_feedVars(pageFrom)
    /\ WF_feedVars(Poll) /\ WF_feedVars(StaleGuardFires)
Spec == Init /\ [][Next]_feedVars /\ Fairness

-----------------------------------------------------------------------------
TypeOK ==
    /\ published \in 0 .. Len(Numbers)
    /\ ToSet(wire) \cup Held \subseteq ToSet(Numbers)
    /\ phase \in {"loading", "joining", "joined", "failed", "closed"}
    /\ {subscribed, fresh, armed} \subseteq BOOLEAN
    /\ ToSet(queue) \subseteq Tasks /\ Len(queue) <= MaxQueue
    /\ seen \in ToSet(Numbers) \cup {0} /\ failures \in 0 .. MaxFailures
    /\ shown \in {"loading", "empty", "stale", "live", "polling"}

\* The chart never has a hole or a repetition: what the feed holds is a run of
\* the published ticks, whatever was lost, repeated, late or half read, and it
\* is never longer than the window.
NoGaps ==
    /\ Len(ticks) = Cardinality(Held) /\ Len(ticks) <= Window
    /\ Held = {n \in ToSet(Published) : \E a, b \in Held : a <= n /\ n <= b}

\* What the proofs need.  What is held are the ticks between two positions; ticks on their
\* way are published ones, in order; the first task finds nothing read.
Run(i, j) == SubSeq(Numbers, i + 1, j)
HoldsRun ==
    /\ published \in 0 .. Len(Numbers)
    /\ \E i, j \in 0 .. published : i <= j /\ j - i <= Window /\ ticks = Run(i, j)
WaitingInOrder ==
    /\ wire \in Seq(ToSet(Published)) /\ \A i, k \in DOMAIN wire : i < k => wire[i] < wire[k]
    /\ queue \in Seq([kind : {"load", "catchUp"}] \cup [kind : {"receive"}, tick : ToSet(Published)])
    /\ \A i \in DOMAIN queue : queue[i].kind = "receive" =>
          /\ \A k \in DOMAIN queue : i < k /\ queue[k].kind = "receive" => queue[i].tick < queue[k].tick
          /\ \A k \in DOMAIN wire : queue[i].tick < wire[k]
    /\ \A i \in DOMAIN queue : queue[i].kind = "load" => i = 1 /\ task = Idle /\ ticks = <<>> /\ seen = 0

\* A page continues what is held, or reaches the newest tick; where less is held than was
\* shown, whatever is still to be received is newer than that.
WaitingIsNewer ==
    /\ \A i \in DOMAIN queue : queue[i].kind = "receive" => queue[i].tick > seen
    /\ \A k \in DOMAIN wire : wire[k] > seen
ReadsOn ==
    /\ seen \in ToSet(Published) \cup {0}
    /\ task \in {Idle} \cup [step : {"latest", "page"}, after : Nat,
                             tick : ToSet(Published) \cup {0}, before : Nat]
    /\ task.step = "page" =>
          IF ticks = <<>> THEN task.after < Newest ELSE task.after = last(ticks)
    /\ task.step = "latest" \/ last(ticks) < seen => WaitingIsNewer

\* The digit and the price a page shows never go back to an older tick, and a
\* closed feed shows nothing more.
OnlyForward == seen' >= seen /\ (phase = "closed" => seen' = seen)

\* A feed left open ends with the newest tick, without a reload of the page,
\* after lost broadcasts, dropped channels and failed calls.
UpToDate == phase = "closed" \/ last(ticks) = Newest
=============================================================================
