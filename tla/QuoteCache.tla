----------------------------- MODULE QuoteCache -----------------------------
(***************************************************************************)
(* The shared quote cache of the retired spot module,                      *)
(* supabase/functions/_disabled/crypto-spot/quote-cache.mjs, for one       *)
(* symbol: every request first looks into the cache of its own function    *)
(* instance, then into Redis, then takes a lock with a lease, looks again, *)
(* and only then fetches a book and publishes a new snapshot.  Redis is an *)
(* optimisation: the first command that fails turns it off for that        *)
(* instance for good.                                                      *)
(*                                                                         *)
(* Time is abstracted: a snapshot stops being fresh (3 s) and a lease runs *)
(* out (30 s, always after every snapshot taken before it) at any moment.  *)
(***************************************************************************)
EXTENDS Naturals, FiniteSets

CONSTANTS
    Requests,       \* calls of getSnapshot; each is made once
    Instances,      \* function instances, each with its own memory
    Host,           \* request -> the instance it reaches
    MaxFaults       \* bound: Redis commands that fail, fetches that fail

NoOne == "none"
QuoteCacheAssumption ==
    Host \in [Requests -> Instances] /\ NoOne \notin Requests /\ MaxFaults \in Nat

VARIABLES
    usable,     \* instance -> redisUsable
    micro,      \* instance -> the snapshot in its microCache, or None
    shared,     \* the snapshot under the quote key in Redis, or None
    lock,       \* the owner of the lock key in Redis, or None
    made,       \* snapshots inserted so far (they are numbered)
    fresh,      \* the snapshots younger than 3 s
    calls,      \* request -> [at, locked, took]
    leased,     \* requests whose lease has not run out since they took it
    outrun,     \* whether any lease ran out while its owner was at work
    faults

quoteVars == <<usable, micro, shared, lock, made, fresh, calls, leased, outrun, faults>>

None == 0

Idle == [at |-> "idle", locked |-> FALSE, took |-> None]
Healthy == (\A i \in Instances : usable[i]) /\ ~outrun

Init ==
    /\ usable = [i \in Instances |-> TRUE]
    /\ micro = [i \in Instances |-> None]
    /\ shared = None /\ lock = NoOne /\ made = 0 /\ fresh = {}
    /\ calls = [r \in Requests |-> Idle]
    /\ leased = {} /\ outrun = FALSE /\ faults = 0

Goto(r, at) == calls' = [calls EXCEPT ![r].at = at]
On(r) == Host[r]

(* A command whose answer is lost or is an error: degrade, for good.       *)
Degrade(r) ==
    /\ faults < MaxFaults
    /\ faults' = faults + 1
    /\ usable' = [usable EXCEPT ![On(r)] = FALSE]

KeepRedis == UNCHANGED <<usable, faults>>

(* Without Redis a request fetches on its own.                             *)
getSnapshot(r) ==
    /\ calls[r].at = "idle"
    /\ Goto(r, IF micro[On(r)] \in fresh THEN "done" ELSE IF usable[On(r)] THEN "get" ELSE "fetch")
    /\ micro' = [micro EXCEPT ![On(r)] = IF @ \in fresh THEN @ ELSE None]
    /\ KeepRedis
    /\ UNCHANGED <<shared, lock, made, fresh, leased, outrun>>

(* GET of the quote key: parseSnapshot takes only a fresh one.  A failed   *)
(* GET falls through to the lock, whose command then fails at once.        *)
ReadShared(r) ==
    /\ calls[r].at = "get"
    /\ \/ usable[On(r)] /\ shared \in fresh /\ Goto(r, "done") /\ KeepRedis
       \/ usable[On(r)] /\ shared \notin fresh /\ Goto(r, "lock") /\ KeepRedis
       \/ Degrade(r) /\ Goto(r, "fetch")
       \/ ~usable[On(r)] /\ Goto(r, "fetch") /\ KeepRedis
    /\ UNCHANGED <<micro, shared, lock, made, fresh, leased, outrun>>

(* SET NX EX 30: taken, refused (the customer is asked to try again), or   *)
(* failed, with the key set or not.                                        *)
TakeLock(r) ==
    /\ calls[r].at = "lock"
    /\ \/ /\ usable[On(r)] /\ lock = NoOne
          /\ lock' = r /\ leased' = leased \cup {r}
          /\ calls' = [calls EXCEPT ![r].at = "recheck", ![r].locked = TRUE]
          /\ KeepRedis
       \/ /\ usable[On(r)] /\ lock # NoOne
          /\ Goto(r, "done") /\ KeepRedis /\ UNCHANGED <<lock, leased>>
       \/ /\ Degrade(r) /\ Goto(r, "fetch")
          /\ lock' \in {lock, IF lock = NoOne THEN r ELSE lock}
          /\ UNCHANGED leased
       \/ ~usable[On(r)] /\ Goto(r, "fetch") /\ KeepRedis /\ UNCHANGED <<lock, leased>>
    /\ UNCHANGED <<micro, shared, made, fresh, outrun>>

(* "Another worker may have completed between GET and SET."                *)
AfterRecheck(r) == IF usable[On(r)] /\ shared \in fresh THEN "unlock" ELSE "fetch"

Recheck(r) ==
    /\ calls[r].at = "recheck"
    /\ \/ Goto(r, AfterRecheck(r)) /\ KeepRedis
       \/ usable[On(r)] /\ Degrade(r) /\ Goto(r, "fetch")
    /\ UNCHANGED <<micro, shared, lock, made, fresh, leased, outrun>>

Released(r) == IF calls[r].locked THEN "unlock" ELSE "done"

(* The book is read and the snapshot inserted, or a QuoteError leaves the  *)
(* function through its `finally`.                                         *)
Fetch(r) ==
    /\ calls[r].at = "fetch"
    /\ \/ /\ made' = made + 1 /\ fresh' = fresh \cup {made + 1}
          /\ calls' = [calls EXCEPT ![r].at = "publish", ![r].took = made + 1]
          /\ UNCHANGED faults
       \/ /\ faults < MaxFaults /\ faults' = faults + 1
          /\ Goto(r, Released(r)) /\ UNCHANGED <<made, fresh>>
    /\ UNCHANGED <<usable, micro, shared, lock, leased, outrun>>

(* After the follow-up (matching), the instance's memory and then Redis    *)
(* get the snapshot, however old it has become.                            *)
Publish(r) ==
    /\ calls[r].at = "publish"
    /\ micro' = [micro EXCEPT ![On(r)] = calls[r].took]
    /\ \/ shared' = (IF usable[On(r)] THEN calls[r].took ELSE shared) /\ KeepRedis
       \/ usable[On(r)] /\ Degrade(r) /\ shared' \in {shared, calls[r].took}
    /\ Goto(r, Released(r))
    /\ UNCHANGED <<lock, made, fresh, leased, outrun>>

\* Mutant: the lock is deleted whoever owns it.
DeletesAnyLock(r) == NoOne

(* The script deletes the lock only while this request still owns it.      *)
AfterUnlock(r) == IF lock = r THEN NoOne ELSE lock

Unlock(r) ==
    /\ calls[r].at = "unlock"
    /\ \/ lock' = (IF usable[On(r)] THEN AfterUnlock(r) ELSE lock) /\ KeepRedis
       \/ usable[On(r)] /\ Degrade(r) /\ lock' \in {lock, AfterUnlock(r)}
    /\ leased' = leased \ {r}
    /\ calls' = [calls EXCEPT ![r].at = "done", ![r].locked = FALSE]
    /\ UNCHANGED <<micro, shared, made, fresh, outrun>>

(* The runtime ends the function in the middle of a request.               *)
Dies(r) ==
    /\ calls[r].at \notin {"idle", "done"}
    /\ faults < MaxFaults /\ faults' = faults + 1
    /\ Goto(r, "done")
    /\ UNCHANGED <<usable, micro, shared, lock, made, fresh, leased, outrun>>

(* Three seconds after it was received a snapshot is no longer accepted    *)
(* (its Redis key expires later, and is then rejected by parseSnapshot).   *)
SnapshotAges ==
    /\ fresh # {}
    /\ fresh' = fresh \ {CHOOSE s \in fresh : \A t \in fresh : s <= t}
    /\ UNCHANGED <<usable, micro, shared, lock, made, calls, leased, outrun, faults>>

LeaseRunsOut ==
    /\ lock # NoOne
    /\ lock' = NoOne /\ leased' = leased \ {lock} /\ outrun' = TRUE
    /\ UNCHANGED <<usable, micro, shared, made, fresh, calls, faults>>

Next ==
    \/ \E r \in Requests :
          \/ getSnapshot(r) \/ ReadShared(r) \/ TakeLock(r) \/ Recheck(r)
          \/ Fetch(r) \/ Publish(r) \/ Unlock(r) \/ Dies(r)
    \/ SnapshotAges
    \/ LeaseRunsOut

Spec == Init /\ [][Next]_quoteVars

-----------------------------------------------------------------------------
Steps == {"idle", "get", "lock", "recheck", "fetch", "publish", "unlock", "done"}

TypeOK ==
    /\ usable \in [Instances -> BOOLEAN]
    /\ micro \in [Instances -> 0 .. Cardinality(Requests)]
    /\ shared \in 0 .. Cardinality(Requests)
    /\ lock \in Requests \cup {NoOne}
    /\ made \in 0 .. Cardinality(Requests)
    /\ fresh \subseteq 1 .. made
    /\ calls \in [Requests -> [at : Steps, locked : BOOLEAN, took : 0 .. Cardinality(Requests)]]
    /\ leased \subseteq Requests
    /\ outrun \in BOOLEAN
    /\ faults \in 0 .. MaxFaults

\* What the proofs need of the types.
CallsAreCalls ==
    /\ usable \in [Instances -> BOOLEAN] /\ made \in Nat
    /\ calls \in [Requests -> [at : Steps, locked : BOOLEAN, took : Nat]]
    /\ lock \in Requests \cup {NoOne} /\ leased \subseteq Requests /\ outrun \in BOOLEAN

(* A running lease is of the owner of the lock; and in the good case only  *)
(* the owner is past it, what is fresh when it has looked again or the     *)
(* lock is free is what is shared, nothing is when it fetches, and only    *)
(* its own when it publishes.                                              *)
LeaseOfOwner == \A r \in leased : r = lock
OwnerAlone ==
    \A r \in Requests : calls[r].at \in {"recheck", "fetch", "publish", "unlock"} =>
        /\ lock = r /\ calls[r].locked
        /\ calls[r].at \in {"recheck", "unlock"} => fresh \subseteq {shared}
        /\ calls[r].at = "fetch" => fresh = {}
        /\ calls[r].at = "publish" => fresh \subseteq {calls[r].took}
FreshIsShared == lock = NoOne => fresh \subseteq {shared}
OneFresh == \A s, t \in fresh : s = t

(* While Redis answers every instance and no lease ever ran out, two       *)
(* snapshots are never fresh at the same time, however many requests       *)
(* arrive: one answer of the exchange serves them all until it is stale.   *)
(* (A request may ask the exchange and get no answer; that is not          *)
(* counted.)  It takes the lock, the second look after it, and publishing  *)
(* before unlocking.                                                       *)
OneFreshSnapshot == Healthy => Cardinality(fresh) <= 1

(* Even when leases run out while their owners still work, two requests    *)
(* whose leases are running never fetch at once: a late owner does not     *)
(* delete its successor's lock.                                            *)
LeaseIsExclusive ==
    Cardinality({r \in leased : calls[r].locked /\ calls[r].at \in {"fetch", "publish"}}) <= 1

=====
